---- MODULE Spec2Model ----
(***************************************************************************)
(* A model of the ash-video player: main (src/src/main.rs) and the cosy     *)
(* library (src/src/lib.rs).                                                *)
(*                                                                          *)
(*   Spec        main from process start to the end of the frame loop:      *)
(*               container input, window, App::create with the queue-family *)
(*               scan of create_device, resource setup, event loop.         *)
(*   SpecMem     memory-type selection at the five call sites of main.      *)
(*   SpecUpload  the map / copy / unmap / bind cycle of the four staging    *)
(*               uploads of main.                                           *)
(*   SpecExec    the one-shot command executor with the accelerator queue   *)
(*               as a second process.                                       *)
(***************************************************************************)
EXTENDS Integers, Sequences, FiniteSets, TLC

VARIABLES
    \* ---- main and App (Spec) ----
    debug,          \* cfg!(debug_assertions): the build flavour
    argc,           \* number of command-line arguments, program name included
    pc,             \* position of main
    failedAt,       \* the step that ended the process, "" while it runs
    meta,           \* what read_mp4 returned
    eventLoop,      \* EventLoop::new() has run
    window,         \* WindowBuilder::build has returned a window
    created,        \* graphics objects created so far
    destroyed,      \* graphics objects destroyed so far
    app_data,       \* AppData
    app,            \* App::create has returned Ok(Self)
    ndev,           \* length of the list enumerate_physical_devices returned
    pdevices,       \* queue families of the devices visited by the scan
    qi,             \* index of the queue family the scan looks at next
    queried,        \* (device, family) pairs whose surface support was queried
    selected,       \* result of the scan: <<>> or <<device, family>>
    deviceCreate,   \* arguments of instance.create_device: <<>> or a record
    setupStep,      \* index of the next resource-setup step of main
    destroying,     \* main's local of the same name
    control_flow,   \* the event loop's ControlFlow
    events,         \* events delivered to the closure so far
    render_calls,   \* calls of App::render
    destroy_calls,  \* calls of App::destroy
    \* ---- memory-type selection (SpecMem) ----
    memory_types,   \* device_memory_properties.memory_types[..memory_type_count]
    site,           \* the call site main is at
    memory_type_bits, \* memory_type_bits of the requirements at this site
    found,          \* result of find_memorytype_index: -1 (None) or the index
    mpc,            \* position within the call site
    alloc_index,    \* memory_type_index of this site's MemoryAllocateInfo, -1 before
    \* ---- staging upload (SpecUpload) ----
    upc,            \* position within the upload
    usite,          \* the upload main is at
    data,           \* the client array, a sequence of element values
    region,         \* the mapped region, byte offset -> byte
    region_size,    \* memory requirements' size of the buffer
    elem_size,      \* Align's stride
    readback,       \* elements read from the region before unmap
    \* ---- one-shot executor (SpecExec) ----
    epc,            \* position of record_submit_commandbuffer
    fence,          \* setup_commands_reuse_fence
    cmdbuf,         \* state of setup_command_buffer
    inflight,       \* a submission using the command buffer is executing
    steps,          \* steps the current call has performed
    calls,          \* calls of the executor begun so far
    recorded,       \* commands in the command buffer
    effects         \* commands whose effects the accelerator has made visible

mainVars == <<debug, argc, pc, failedAt, meta, eventLoop, window, created,
              destroyed, app_data, app, ndev, pdevices, qi, queried, selected,
              deviceCreate, setupStep, destroying, control_flow, events,
              render_calls, destroy_calls>>
memVars == <<memory_types, site, memory_type_bits, found, mpc, alloc_index>>
upVars == <<upc, usite, data, region, region_size, elem_size, readback>>
execVars == <<epc, fence, cmdbuf, inflight, steps, calls, recorded, effects>>
vars == <<mainVars, memVars, upVars, execVars>>

buildVars == <<debug, argc>>
objVars == <<created, destroyed, app_data, app>>
scanVars == <<ndev, pdevices, qi, queried, selected, deviceCreate>>
loopVars == <<destroying, control_flow, events, render_calls, destroy_calls>>
otherVars == <<memVars, upVars, execVars>>

(***************************************************************************)
(* Bounds of the model.                                                    *)
(***************************************************************************)
MaxDevices == 2
MaxFamilies == 2
MaxEvents == 4
MaxMemTypes == 2
MaxPixels == 2
MaxSlack == 4
MaxCalls == 3

SeqsUpTo(S, n) == UNION {[1..k -> S] : k \in 1..n}

(***************************************************************************)
(* Parts of the state a specification does not use.                        *)
(***************************************************************************)
MainIdle ==
    /\ debug = FALSE /\ argc = 1 /\ pc = "unused" /\ failedAt = ""
    /\ meta = <<>> /\ eventLoop = FALSE /\ window = FALSE
    /\ created = {} /\ destroyed = {}
    /\ app_data = [debug_call_back |-> 0, surface |-> 0,
                   physical_device |-> 0, graphics_queue |-> 0]
    /\ app = FALSE /\ ndev = 0 /\ pdevices = <<>> /\ qi = 0
    /\ queried = {} /\ selected = <<>> /\ deviceCreate = <<>>
    /\ setupStep = 0 /\ destroying = FALSE /\ control_flow = "Poll"
    /\ events = 0 /\ render_calls = 0 /\ destroy_calls = 0

MemIdle ==
    /\ memory_types = <<>> /\ site = 0 /\ memory_type_bits = 0
    /\ found = -1 /\ mpc = "unused" /\ alloc_index = -1

UpIdle ==
    /\ upc = "unused" /\ usite = 0 /\ data = <<>> /\ region = <<>>
    /\ region_size = 0 /\ elem_size = 0 /\ readback = <<>>

ExecIdle ==
    /\ epc = "unused" /\ fence = "signaled" /\ cmdbuf = "initial"
    /\ inflight = FALSE /\ steps = <<>> /\ calls = 0
    /\ recorded = <<>> /\ effects = <<>>

(***************************************************************************)
(* main: container input (main.rs 54-125).                                 *)
(***************************************************************************)
\* DEBUG_ENABLED of the cosy library: set in debug builds.
DEBUG_ENABLED == debug

\* VALIDATION_ENABLED (lib.rs 19).
VALIDATION_ENABLED == debug

\* A process that has ended: `?` made main return Err, or a panic unwound it.
Ended == pc \in {"exit_err", "panicked", "exited"}

Fail(how, step) ==
    /\ pc' = how
    /\ failedAt' = step

\* What the demuxer reports of the container: whether the timescale is 1000,
\* and the video track, if any.
Metas == [timescale_1000 : BOOLEAN,
          video : {"none", "no_stsd", "not_video_entry", "avc_640x360",
                   "avc_other_size", "not_avc"}]

\* FileOpen with EventLoop::new() hoisted above the container input.
FileOpen_EventLoopFirst ==
    /\ pc = "open"
    /\ eventLoop' = TRUE
    /\ \/ /\ ~DEBUG_ENABLED /\ argc < 2
          /\ Fail("panicked", "args")
       \/ /\ DEBUG_ENABLED \/ argc >= 2
          /\ \/ pc' = "read" /\ failedAt' = failedAt
             \/ Fail("exit_err", "open")
    /\ UNCHANGED <<meta, window, setupStep, buildVars, objVars, scanVars, loopVars, otherVars>>

\* File::open(...)? (main.rs 56-62). A release build indexes args[1].
FileOpen ==
    /\ pc = "open"
    /\ \/ /\ ~DEBUG_ENABLED /\ argc < 2
          /\ Fail("panicked", "args")
       \/ /\ DEBUG_ENABLED \/ argc >= 2
          /\ \/ pc' = "read" /\ failedAt' = failedAt
             \/ Fail("exit_err", "open")
    /\ UNCHANGED <<meta, eventLoop, window, setupStep, buildVars, objVars, scanVars, loopVars, otherVars>>

\* file.read_to_end(&mut buf)? (main.rs 63-64).
FileRead ==
    /\ pc = "read"
    /\ \/ pc' = "parse" /\ failedAt' = failedAt
       \/ Fail("exit_err", "read")
    /\ UNCHANGED <<meta, eventLoop, window, setupStep, buildVars, objVars, scanVars, loopVars, otherVars>>

\* mp4parse::read_mp4(&mut c)? (main.rs 66-67).
FileParse ==
    /\ pc = "parse"
    /\ \/ /\ \E m \in Metas : meta' = m
          /\ pc' = "validate" /\ failedAt' = failedAt
       \/ /\ Fail("exit_err", "parse")
          /\ meta' = meta
    /\ UNCHANGED <<eventLoop, window, setupStep, buildVars, objVars, scanVars, loopVars, otherVars>>

\* The assertions on the parsed container (main.rs 69-125): the timescale
\* assert_eq, the expects on the video track, the DEBUG_ENABLED asserts on the
\* sample's size and the codec_specific assert_eq.
ValidateOk ==
    /\ meta.timescale_1000
    /\ meta.video \notin {"no_stsd", "not_video_entry", "not_avc"}
    /\ DEBUG_ENABLED => meta.video # "avc_other_size"

Validate ==
    /\ pc = "validate"
    /\ IF ValidateOk
          THEN pc' = "event_loop" /\ failedAt' = failedAt
          ELSE Fail("panicked", "validate")
    /\ UNCHANGED <<meta, eventLoop, window, setupStep, buildVars, objVars, scanVars, loopVars, otherVars>>

\* EventLoop::new() (main.rs 127). video_context was moved into the loop over
\* its tracks (main.rs 76) and is gone by now.
EventLoopNew ==
    /\ pc = "event_loop"
    /\ eventLoop' = TRUE
    /\ meta' = <<>>
    /\ pc' = "window"
    /\ UNCHANGED <<failedAt, window, setupStep, buildVars, objVars, scanVars, loopVars, otherVars>>

\* WindowBuilder::new()...build(&event_loop).unwrap() (main.rs 129-133).
WindowBuild ==
    /\ pc = "window"
    /\ \/ /\ window' = TRUE
          /\ pc' = "create_instance" /\ failedAt' = failedAt
       \/ /\ Fail("panicked", "window")
          /\ window' = window
    /\ UNCHANGED <<meta, eventLoop, setupStep, buildVars, objVars, scanVars, loopVars, otherVars>>

(***************************************************************************)
(* App::create (lib.rs 58-83): create_instance, create_surface,            *)
(* create_device.                                                          *)
(***************************************************************************)
\* Handles: 0 is the null handle (AppData::default()), a physical device's
\* handle is its position in the enumerated list, any other object's is 1.
NullHandle == 0

\* create_instance (lib.rs 100-162).
CreateInstance ==
    /\ pc = "create_instance"
    /\ \/ /\ Fail("panicked", "create_instance")
          /\ UNCHANGED <<created, app_data>>
       \/ /\ VALIDATION_ENABLED
          /\ Fail("exit_err", "create_debug_utils_messenger")
          /\ created' = created \cup {"instance"}
          /\ UNCHANGED app_data
       \/ /\ pc' = "create_surface" /\ failedAt' = failedAt
          /\ IF VALIDATION_ENABLED
                THEN /\ created' = created \cup {"instance", "debug_messenger"}
                     /\ app_data' = [app_data EXCEPT !.debug_call_back = 1]
                ELSE /\ created' = created \cup {"instance"}
                     /\ UNCHANGED app_data
    /\ UNCHANGED <<meta, eventLoop, window, setupStep, destroyed, app, buildVars, scanVars, loopVars, otherVars>>

\* ash_window::create_surface(...)? (lib.rs 65-71).
CreateSurface ==
    /\ pc = "create_surface"
    /\ \/ /\ Fail("exit_err", "create_surface")
          /\ UNCHANGED <<created, app_data>>
       \/ /\ pc' = "enumerate" /\ failedAt' = failedAt
          /\ created' = created \cup {"surface"}
          /\ app_data' = [app_data EXCEPT !.surface = 1]
    /\ UNCHANGED <<meta, eventLoop, window, setupStep, destroyed, app, buildVars, scanVars, loopVars, otherVars>>

\* A queue family as the driver reports it: its GRAPHICS flag and the answer
\* of get_physical_device_surface_support for it ("err": the query fails).
\* The answer of a family without the flag is never asked for, so it has no
\* failing variant.
Families ==
    [graphics : {TRUE}, present : {"yes", "no", "err"}]
        \cup [graphics : {FALSE}, present : {"yes", "no"}]

\* instance.enumerate_physical_devices().expect(..) (lib.rs 169-171).
EnumeratePhysicalDevices ==
    /\ pc = "enumerate"
    /\ \/ /\ Fail("panicked", "enumerate_physical_devices")
          /\ UNCHANGED ndev
       \/ /\ \E n \in 0..MaxDevices : ndev' = n
          /\ pc' = "scan" /\ failedAt' = failedAt
    /\ UNCHANGED <<meta, eventLoop, window, setupStep, pdevices, qi, queried, selected, deviceCreate, buildVars, objVars, loopVars, otherVars>>

\* The device the scan is at, 0 before the first.
CurrentDevice == Len(pdevices)

\* FamilyOutcome without the GRAPHICS test.
FamilyOutcome_NoGraphicsTest(info) ==
    IF info.present = "err" THEN "abort"
    ELSE IF info.present = "yes" THEN "some" ELSE "none"

\* FamilyOutcome with unwrap_or(false) on the support query.
FamilyOutcome_SkipOnError(info) ==
    IF info.graphics /\ info.present = "yes" THEN "some" ELSE "none"

\* The closure of the inner find_map (lib.rs 180-195) on one family:
\* "abort" (unwrap of a failed query), "some" or "none".
FamilyOutcome(info) ==
    IF info.graphics
       THEN IF info.present = "err" THEN "abort"
            ELSE IF info.present = "yes" THEN "some" ELSE "none"
       ELSE "none"

\* Whether the closure issues the surface-support query for the family: the
\* right operand of && is evaluated only when the left one holds.
QueryIssued(info) == info.graphics

\* ExpectSuitable falling back to family 0 of the first device.
ExpectSuitable_Fallback ==
    /\ selected' = <<1, 0>>
    /\ pc' = "device_create" /\ failedAt' = failedAt

\* .expect("Couldn't find suitable device.") on a scan that found nothing
\* (lib.rs 197).
ExpectSuitable ==
    /\ Fail("panicked", "no_suitable_device")
    /\ UNCHANGED selected

\* The outer find_map moves to the next physical device and reads its queue
\* families (lib.rs 173-179), or runs out of devices and expect panics
\* (lib.rs 197).
ScanNextDevice ==
    /\ pc = "scan"
    /\ \/ pdevices = <<>>
       \/ pdevices # <<>> /\ qi > Len(pdevices[CurrentDevice])
    /\ IF CurrentDevice < ndev
          THEN /\ \E fams \in SeqsUpTo(Families, MaxFamilies) :
                      pdevices' = Append(pdevices, fams)
               /\ qi' = 1
               /\ UNCHANGED <<pc, failedAt, selected>>
          ELSE /\ ExpectSuitable
               /\ UNCHANGED <<pdevices, qi>>
    /\ UNCHANGED <<meta, eventLoop, window, setupStep, ndev, queried, deviceCreate, buildVars, objVars, loopVars, otherVars>>

\* One step of the inner find_map (lib.rs 180-195). The family index is the
\* enumerate() index, from 0.
ScanFamily ==
    /\ pc = "scan"
    /\ pdevices # <<>>
    /\ qi <= Len(pdevices[CurrentDevice])
    /\ LET info == pdevices[CurrentDevice][qi]
           index == qi - 1
           out == FamilyOutcome(info)
       IN /\ queried' = IF QueryIssued(info)
                           THEN queried \cup {<<CurrentDevice, index>>}
                           ELSE queried
          /\ CASE out = "abort" ->
                    /\ Fail("panicked", "get_physical_device_surface_support")
                    /\ UNCHANGED <<qi, selected>>
               [] out = "some" ->
                    /\ selected' = <<CurrentDevice, index>>
                    /\ pc' = "device_create" /\ failedAt' = failedAt
                    /\ UNCHANGED qi
               [] out = "none" ->
                    /\ qi' = qi + 1
                    /\ UNCHANGED <<pc, failedAt, selected>>
    /\ UNCHANGED <<meta, eventLoop, window, setupStep, ndev, pdevices, deviceCreate, buildVars, objVars, loopVars, otherVars>>

\* QueueCreateFamily with the family index hard-coded to 0.
QueueCreateFamily_Zero(sel) == 0

\* The queue family index handed to DeviceQueueCreateInfo (lib.rs 198,
\* 211-213).
QueueCreateFamily(sel) == sel[2]

\* instance.create_device(pdevice, &device_create_info, None).unwrap()
\* (lib.rs 200-224).
CreateLogicalDevice ==
    /\ pc = "device_create"
    /\ deviceCreate' = [pdevice |-> selected[1],
                        queue_family_index |-> QueueCreateFamily(selected)]
    /\ \/ /\ Fail("panicked", "create_device")
          /\ UNCHANGED created
       \/ /\ pc' = "create_return" /\ failedAt' = failedAt
          /\ created' = created \cup {"device"}
    /\ UNCHANGED <<meta, eventLoop, window, setupStep, destroyed, app_data, app, ndev, pdevices, qi, queried, selected, buildVars, loopVars, otherVars>>

\* Ok(Self { entry, app_data, instance, device }) (lib.rs 77-82).
AppCreateReturn ==
    /\ pc = "create_return"
    /\ app' = TRUE
    /\ pc' = "setup"
    /\ setupStep' = 1
    /\ UNCHANGED <<failedAt, meta, eventLoop, window, created, destroyed, app_data, buildVars, scanVars, loopVars, otherVars>>

(***************************************************************************)
(* main: resource setup (main.rs 138-791). Every step unwraps or expects   *)
(* the driver's answer.                                                    *)
(***************************************************************************)
\* The steps of a staging upload (main.rs 212-247, 273-315, 329-370,
\* 384-420): create_buffer, find_memorytype_index, allocate_memory,
\* map_memory, Align copy, bind_buffer_memory.
StagingSteps(r) ==
    <<r \o ".create", r \o ".memorytype", r \o ".allocate", r \o ".map",
      r \o ".copy", r \o ".bind">>

\* SetupSteps with the texture image bound to its memory only after the
\* upload submission.
SetupSteps_BindAfterUpload ==
    <<"render_pass.create", "framebuffers.create">>
        \o StagingSteps("index_buffer") \o StagingSteps("vertex_buffer")
        \o StagingSteps("uniform_buffer")
        \o <<"image.decode">> \o StagingSteps("image_buffer")
        \o <<"texture_image.create", "texture_image.memorytype",
             "texture_image.allocate",
             "texture_upload", "texture_image.bind",
             "sampler.create", "texture_view.create",
             "descriptor_pool.create", "descriptor_set_layout.create",
             "descriptor_sets.allocate", "descriptors.update",
             "shaders.read", "shader_modules.create",
             "pipeline_layout.create", "pipeline.create">>

\* The steps of main between App::create and event_loop.run, in program
\* order (main.rs 183-791).
SetupSteps ==
    <<"render_pass.create", "framebuffers.create">>
        \o StagingSteps("index_buffer") \o StagingSteps("vertex_buffer")
        \o StagingSteps("uniform_buffer")
        \o <<"image.decode">> \o StagingSteps("image_buffer")
        \o <<"texture_image.create", "texture_image.memorytype",
             "texture_image.allocate", "texture_image.bind",
             "texture_upload",
             "sampler.create", "texture_view.create",
             "descriptor_pool.create", "descriptor_set_layout.create",
             "descriptor_sets.allocate", "descriptors.update",
             "shaders.read", "shader_modules.create",
             "pipeline_layout.create", "pipeline.create">>

\* update_descriptor_sets (main.rs 642) returns nothing: it cannot fail.
Infallible == {"descriptors.update"}

\* The resources a step refers to: the submission of main.rs 456-525 copies
\* image_buffer into texture_image, the view is of texture_image
\* (main.rs 557), the descriptor writes name uniform_color_buffer and the
\* view (main.rs 613-642).
Uses(step) ==
    CASE step = "texture_upload" -> {"image_buffer", "texture_image"}
      [] step = "texture_view.create" -> {"texture_image"}
      [] step = "descriptors.update" -> {"uniform_buffer", "texture_image"}
      [] OTHER -> {}

\* SetupNext going on to the next step after a failed one.
SetupNext_Continue ==
    /\ pc = "setup"
    /\ setupStep <= Len(SetupSteps)
    /\ \/ /\ created' = created \cup {SetupSteps[setupStep]}
          /\ setupStep' = setupStep + 1
          /\ pc' = pc /\ failedAt' = failedAt
       \/ /\ SetupSteps[setupStep] \notin Infallible
          /\ failedAt' = SetupSteps[setupStep]
          /\ setupStep' = setupStep + 1
          /\ UNCHANGED <<pc, created>>
    /\ ndev' = 0 /\ pdevices' = <<>> /\ qi' = 0 /\ queried' = {}
    /\ selected' = <<>> /\ deviceCreate' = <<>>
    /\ UNCHANGED <<meta, eventLoop, window, destroyed, app_data, app, buildVars, loopVars, otherVars>>

\* One setup step: it is done, or its unwrap / expect panics. The locals
\* of create_device no longer exist.
SetupNext ==
    /\ pc = "setup"
    /\ setupStep <= Len(SetupSteps)
    /\ \/ /\ created' = created \cup {SetupSteps[setupStep]}
          /\ setupStep' = setupStep + 1
          /\ pc' = pc /\ failedAt' = failedAt
       \/ /\ SetupSteps[setupStep] \notin Infallible
          /\ Fail("panicked", SetupSteps[setupStep])
          /\ UNCHANGED <<created, setupStep>>
    /\ ndev' = 0 /\ pdevices' = <<>> /\ qi' = 0 /\ queried' = {}
    /\ selected' = <<>> /\ deviceCreate' = <<>>
    /\ UNCHANGED <<meta, eventLoop, window, destroyed, app_data, app, buildVars, loopVars, otherVars>>

\* let mut destroying = false; event_loop.run(..) (main.rs 793-794).
EventLoopRun ==
    /\ pc = "setup"
    /\ setupStep > Len(SetupSteps)
    /\ pc' = "running"
    /\ destroying' = FALSE
    /\ UNCHANGED <<failedAt, meta, eventLoop, window, setupStep, control_flow, events, render_calls, destroy_calls, buildVars, objVars, scanVars, otherVars>>

(***************************************************************************)
(* The frame loop: the closure of event_loop.run (main.rs 794-810).        *)
(***************************************************************************)
\* The windowing library's rule for the closure's writes to control_flow:
\* Exit is sticky, a later write cannot leave it.
Sticky(old, new) == IF old = "Exit" THEN "Exit" ELSE new

\* App::render (lib.rs 84-86): returns Ok(()) and touches nothing.
Render == render_calls' = render_calls + 1

\* Destroy tearing down everything made from the instance before it.
Destroy_Everything ==
    /\ destroy_calls' = destroy_calls + 1
    /\ destroyed' = destroyed \cup
          (created \cap {"device", "surface", "debug_messenger", "instance"})

\* App::destroy (lib.rs 87-89): instance.destroy_instance(None).
Destroy ==
    /\ destroy_calls' = destroy_calls + 1
    /\ destroyed' = destroyed \cup {"instance"}

\* RenderArm without its guard.
RenderArm_Always == TRUE

\* Whether the first arm of the match is taken for MainEventsCleared
\* (main.rs 797).
RenderArm == ~destroying

\* Event::MainEventsCleared (main.rs 795-797, 808).
OnMainEventsCleared ==
    /\ pc = "running"
    /\ events < MaxEvents
    /\ events' = events + 1
    /\ control_flow' = Sticky(control_flow, "Poll")
    /\ IF RenderArm THEN Render ELSE UNCHANGED render_calls
    /\ UNCHANGED <<pc, failedAt, meta, eventLoop, window, setupStep, destroying, destroy_calls, buildVars, objVars, scanVars, otherVars>>

\* CloseControlFlow left at Poll.
CloseControlFlow_Poll == "Poll"

\* What the CloseRequested arm writes to control_flow (main.rs 803).
CloseControlFlow == "Exit"

\* Whether the CloseRequested arm runs its body (main.rs 798-801): the arm
\* has no guard.
CloseArm == TRUE

\* Event::WindowEvent { event: WindowEvent::CloseRequested, .. }
\* (main.rs 795, 798-807).
OnCloseRequested ==
    /\ pc = "running"
    /\ events < MaxEvents
    /\ events' = events + 1
    /\ IF CloseArm
          THEN /\ destroying' = TRUE
               /\ control_flow' = Sticky(Sticky(control_flow, "Poll"),
                                         CloseControlFlow)
               /\ Destroy
          ELSE /\ control_flow' = Sticky(control_flow, "Poll")
               /\ UNCHANGED <<destroying, destroy_calls, destroyed>>
    /\ UNCHANGED <<pc, failedAt, meta, eventLoop, window, setupStep, render_calls, created, app_data, app, buildVars, scanVars, otherVars>>

\* Any other event (main.rs 795, 808).
OnOtherEvent ==
    /\ pc = "running"
    /\ events < MaxEvents
    /\ events' = events + 1
    /\ control_flow' = Sticky(control_flow, "Poll")
    /\ UNCHANGED <<pc, failedAt, meta, eventLoop, window, setupStep, destroying, render_calls, destroy_calls, buildVars, objVars, scanVars, otherVars>>

\* The event loop sees Exit after an iteration, delivers LoopDestroyed
\* (main.rs 808) and ends the process.
LoopExit ==
    /\ pc = "running"
    /\ control_flow = "Exit"
    /\ pc' = "exited"
    /\ UNCHANGED <<failedAt, meta, eventLoop, window, setupStep, buildVars, objVars, scanVars, loopVars, otherVars>>

(***************************************************************************)
(* The program.                                                            *)
(***************************************************************************)
Init ==
    /\ debug \in BOOLEAN
    /\ argc \in 1..2
    /\ pc = "open" /\ failedAt = ""
    /\ meta = <<>> /\ eventLoop = FALSE /\ window = FALSE
    /\ created = {} /\ destroyed = {}
    /\ app_data = [debug_call_back |-> NullHandle, surface |-> NullHandle,
                   physical_device |-> NullHandle,
                   graphics_queue |-> NullHandle]
    /\ app = FALSE /\ ndev = 0 /\ pdevices = <<>> /\ qi = 0
    /\ queried = {} /\ selected = <<>> /\ deviceCreate = <<>>
    /\ setupStep = 0 /\ destroying = FALSE /\ control_flow = "Poll"
    /\ events = 0 /\ render_calls = 0 /\ destroy_calls = 0
    /\ MemIdle /\ UpIdle /\ ExecIdle

Next ==
    \/ FileOpen \/ FileRead \/ FileParse \/ Validate
    \/ EventLoopNew \/ WindowBuild
    \/ CreateInstance \/ CreateSurface \/ EnumeratePhysicalDevices
    \/ ScanNextDevice \/ ScanFamily \/ CreateLogicalDevice
    \/ AppCreateReturn
    \/ SetupNext \/ EventLoopRun
    \/ OnMainEventsCleared \/ OnCloseRequested \/ OnOtherEvent \/ LoopExit

Spec == Init /\ [][Next]_vars

\* The event loop looks at control_flow after every iteration: once it is
\* Exit, which no later write can undo, the loop does stop.
SpecLive == Spec /\ WF_vars(LoopExit)

(***************************************************************************)
(* Memory-type selection: find_memorytype_index and its five call sites in *)
(* main (main.rs 213-228, 277-295, 333-351, 385-401, 435-451).             *)
(***************************************************************************)
MemoryPropertyFlags == {"DEVICE_LOCAL", "HOST_VISIBLE", "HOST_COHERENT"}

\* The call sites in program order: index, vertex, uniform and image staging
\* buffers, then the texture image.
MemSites == 1..5

\* The flags each call site asks for (main.rs 217, 283, 339, 389, 439).
RequestedFlags(s) ==
    IF s = 5 THEN {"DEVICE_LOCAL"} ELSE {"HOST_VISIBLE", "HOST_COHERENT"}

\* Bit i of a memory-type bitmask.
BitSet(bits, i) == (bits \div (2 ^ i)) % 2 = 1

\* find_memorytype_index: scan the reported memory types from index 0 and
\* return the first whose bit is set in the requirements and whose property
\* flags contain the requested ones; -1 stands for None.
RECURSIVE FindFrom(_, _, _, _)
FindFrom(i, bits, types, flags) ==
    IF i >= Len(types) THEN -1
    ELSE IF BitSet(bits, i) /\ flags \subseteq types[i + 1] THEN i
    ELSE FindFrom(i + 1, bits, types, flags)

find_memorytype_index(bits, types, flags) == FindFrom(0, bits, types, flags)

\* get_buffer_memory_requirements / get_image_memory_requirements
\* (main.rs 213, 277-279, 333-335, 385, 435): the driver names the memory
\* types the resource may live in.
GetMemoryRequirements ==
    /\ mpc = "requirements"
    /\ \E bits \in 0..(2 ^ MaxMemTypes - 1) : memory_type_bits' = bits
    /\ mpc' = "find"
    /\ UNCHANGED <<memory_types, site, found, alloc_index>>
    /\ UNCHANGED <<mainVars, upVars, execVars>>

\* The call of find_memorytype_index (main.rs 214-218, 280-284, 336-340,
\* 386-390, 436-440).
FindMemoryType ==
    /\ mpc = "find"
    /\ found' = find_memorytype_index(memory_type_bits, memory_types,
                                       RequestedFlags(site))
    /\ mpc' = "expect"
    /\ UNCHANGED <<memory_types, site, memory_type_bits, alloc_index>>
    /\ UNCHANGED <<mainVars, upVars, execVars>>

\* ExpectMemoryType with unwrap_or(0) in place of expect.
ExpectMemoryType_OrZero ==
    /\ mpc = "expect"
    /\ alloc_index' = IF found = -1 THEN 0 ELSE found
    /\ mpc' = "allocate"
    /\ UNCHANGED <<memory_types, site, memory_type_bits, found>>
    /\ UNCHANGED <<mainVars, upVars, execVars>>

\* .expect("Unable to find suitable memorytype ...") and the
\* MemoryAllocateInfo built from the index (main.rs 219-224, 285-291,
\* 341-347, 391-397, 441-447).
ExpectMemoryType ==
    /\ mpc = "expect"
    /\ IF found = -1
          THEN mpc' = "panicked" /\ UNCHANGED alloc_index
          ELSE mpc' = "allocate" /\ alloc_index' = found
    /\ UNCHANGED <<memory_types, site, memory_type_bits, found>>
    /\ UNCHANGED <<mainVars, upVars, execVars>>

\* allocate_memory(..).unwrap() and the move to the next resource
\* (main.rs 225-228, 292-295, 348-351, 398-401, 448-451).
AllocateMemory ==
    /\ mpc = "allocate"
    /\ \/ mpc' = "panicked" /\ UNCHANGED <<site, found, alloc_index>>
       \/ /\ site < 5
          /\ site' = site + 1
          /\ mpc' = "requirements"
          /\ found' = -1 /\ alloc_index' = -1
       \/ /\ site = 5
          /\ mpc' = "done"
          /\ UNCHANGED <<site, found, alloc_index>>
    /\ UNCHANGED <<memory_types, memory_type_bits>>
    /\ UNCHANGED <<mainVars, upVars, execVars>>

\* The device's memory types are read once (device_memory_properties) and
\* main starts at the index buffer.
InitMem ==
    /\ memory_types \in SeqsUpTo(SUBSET MemoryPropertyFlags, MaxMemTypes)
    /\ site = 1 /\ memory_type_bits = 0 /\ found = -1
    /\ mpc = "requirements" /\ alloc_index = -1
    /\ MainIdle /\ UpIdle /\ ExecIdle

NextMem ==
    \/ GetMemoryRequirements \/ FindMemoryType \/ ExpectMemoryType
    \/ AllocateMemory

SpecMem == InitMem /\ [][NextMem]_vars

\* The memory types that satisfy the request of the current call site.
Matching ==
    {i \in 0..(Len(memory_types) - 1) :
        /\ BitSet(memory_type_bits, i)
        /\ RequestedFlags(site) \subseteq memory_types[i + 1]}

\* C2: the selection returns the lowest index whose bit is set in the
\* requirements and whose flags contain the requested ones; when there is
\* none it returns nothing, main panics and no allocation is made with a
\* memory type that does not match.
C2_LowestMatchingOrFail ==
    /\ mpc \in {"expect", "allocate"} =>
          /\ Matching # {} =>
                found \in Matching /\ \A j \in Matching : found <= j
          /\ Matching = {} => found = -1
    /\ alloc_index # -1 =>
          alloc_index \in Matching /\ \A j \in Matching : alloc_index <= j
    /\ (mpc \in {"allocate", "done"}) => alloc_index # -1
    /\ (mpc = "panicked" /\ found = -1) =>
          Matching = {} /\ alloc_index = -1

\* C2 witness, success: the texture asked for DEVICE_LOCAL, type 0 is
\* allowed by the bitmask but is not device-local, and type 1 was chosen.
C2_Witness ==
    /\ site = 5 /\ mpc = "allocate"
    /\ BitSet(memory_type_bits, 0)
    /\ alloc_index = 1

(***************************************************************************)
(* The staging uploads of main: index buffer (main.rs 205-247), vertex     *)
(* buffer (249-315), uniform buffer (317-370), image buffer (372-420).     *)
(***************************************************************************)
UploadSites == 1..4

\* size_of of the element type: u32, Vertex { [f32; 4], [f32; 2] },
\* Vector3 { 4 x f32 }, u8 (main.rs 38-50, 205, 377).
SizeOf(s) == CASE s = 1 -> 4 [] s = 2 -> 24 [] s = 3 -> 16 [] OTHER -> 1

\* align_of of the element type, the alignment handed to Align::new
\* (main.rs 240, 308, 363, 413).
AlignOf(s) == IF s = 4 THEN 1 ELSE 4

\* The arrays main may hold at each upload: six indices, four vertices, one
\* uniform struct, four bytes per pixel of the decoded image. An element is
\* the number its bytes spell, least significant byte first.
ElemValues(s) == IF s = 4 THEN {7, 255} ELSE {1, 258}

DataLens(s) ==
    CASE s = 1 -> {6} [] s = 2 -> {4} [] s = 3 -> {1}
      [] OTHER -> {4 * n : n \in 1..MaxPixels}

DataArrays(s) == UNION {[1..n -> ElemValues(s)] : n \in DataLens(s)}

\* The bytes of an element in memory, and the element a run of bytes spells.
RECURSIVE ByteOf(_, _)
ByteOf(v, k) == IF k = 0 THEN v % 256 ELSE ByteOf(v \div 256, k - 1)

ToBytes(v, n) == [k \in 0..(n - 1) |-> ByteOf(v, k)]

RECURSIVE FromBytes(_, _, _)
FromBytes(bytes, off, n) ==
    IF n = 0 THEN 0
    ELSE bytes[off] + 256 * FromBytes(bytes, off + 1, n - 1)

\* BufferSize counting elements instead of bytes.
BufferSize_ElementCount(s) == Len(data)

\* BufferCreateInfo.size: size_of_val of the array (main.rs 207, 268, 324,
\* 379).
BufferSize(s) == Len(data) * SizeOf(s)

\* create_buffer, get_buffer_memory_requirements, allocate_memory and
\* map_memory (main.rs 212-237, 273-305, 329-360, 384-410): the driver asks
\* for at least the buffer's size; the mapped bytes are uninitialised (-1).
MapMemory ==
    /\ upc = "map"
    /\ \/ upc' = "panicked" /\ UNCHANGED <<region, region_size>>
       \/ /\ \E slack \in 0..MaxSlack :
                /\ region_size' = BufferSize(usite) + slack
                /\ region' = [o \in 0..(BufferSize(usite) + slack - 1) |-> -1]
          /\ upc' = "align"
    /\ UNCHANGED <<usite, data, elem_size, readback>>
    /\ UNCHANGED <<mainVars, memVars, execVars>>

\* Align's calc_padding.
calc_padding(adr, align) == (align - (adr % align)) % align

\* Align::new(ptr, alignment, size) (main.rs 238-242, 306-310, 361-365,
\* 411-415): the stride is the element size padded to the alignment, and
\* a size that is no multiple of the alignment fails its assertion.
AlignNew ==
    /\ upc = "align"
    /\ IF calc_padding(region_size, AlignOf(usite)) = 0
          THEN /\ elem_size' = SizeOf(usite)
                                + calc_padding(SizeOf(usite), AlignOf(usite))
               /\ upc' = "copy"
          ELSE /\ upc' = "panicked"
               /\ UNCHANGED elem_size
    /\ UNCHANGED <<usite, data, region, region_size, readback>>
    /\ UNCHANGED <<mainVars, memVars, execVars>>

\* The region after element i (from 1) of the array is stored at byte
\* offset off. Bytes past the end of the mapping are not part of it.
StoreElem(reg, off, i) ==
    [o \in DOMAIN reg |->
        IF o >= off /\ o < off + SizeOf(usite)
           THEN ToBytes(data[i], SizeOf(usite))[o - off]
           ELSE reg[o]]

RECURSIVE StoreAll(_, _, _)
StoreAll(reg, i, stride) ==
    IF i > Len(data) THEN reg
    ELSE StoreAll(StoreElem(reg, (i - 1) * stride, i), i + 1, stride)

\* Align::copy_from_slice (main.rs 243, 311, 366, 416): with a stride equal
\* to the element size the array is copied whole, with no check against
\* the mapping's size; otherwise element by element while the offset has
\* not reached the size.
CopyFromSlice ==
    /\ upc = "copy"
    /\ IF elem_size = SizeOf(usite)
          THEN /\ region' = StoreAll(region, 1, elem_size)
               /\ upc' = IF Len(data) * elem_size <= region_size
                             THEN "copied" ELSE "undefined"
          ELSE /\ region' = StoreAll(region, 1, elem_size)
               /\ upc' = "copied"
    /\ UNCHANGED <<usite, data, region_size, elem_size, readback>>
    /\ UNCHANGED <<mainVars, memVars, execVars>>

\* Reading the mapping back through the same stride, before unmap_memory.
ReadBack ==
    /\ upc = "copied"
    /\ readback' = [i \in 1..Len(data) |->
                       FromBytes(region, (i - 1) * elem_size, SizeOf(usite))]
    /\ upc' = "read"
    /\ UNCHANGED <<usite, data, region, region_size, elem_size>>
    /\ UNCHANGED <<mainVars, memVars, execVars>>

\* unmap_memory and bind_buffer_memory(..).unwrap() (main.rs 244-247,
\* 312-315, 367-370, 417-420), then the next array.
UnmapAndBind ==
    /\ upc \in {"copied", "read"}
    /\ \/ upc' = "panicked" /\ UNCHANGED <<usite, data>>
       \/ /\ usite < 4
          /\ usite' = usite + 1
          /\ \E d \in DataArrays(usite + 1) : data' = d
          /\ upc' = "map"
       \/ /\ usite = 4
          /\ upc' = "done"
          /\ UNCHANGED <<usite, data>>
    /\ region' = <<>> /\ region_size' = 0 /\ elem_size' = 0
    /\ readback' = <<>>
    /\ UNCHANGED <<mainVars, memVars, execVars>>

InitUpload ==
    /\ usite = 1
    /\ data \in DataArrays(1)
    /\ upc = "map"
    /\ region = <<>> /\ region_size = 0 /\ elem_size = 0 /\ readback = <<>>
    /\ MainIdle /\ MemIdle /\ ExecIdle

NextUpload ==
    \/ MapMemory \/ AlignNew \/ CopyFromSlice \/ ReadBack \/ UnmapAndBind

SpecUpload == InitUpload /\ [][NextUpload]_vars

\* C5: what is read back from the mapped region before unmap is the array
\* that was copied in, element for element and in order, every element
\* lies at a multiple of its type's alignment inside the mapping, and the
\* copy stays inside the mapping.
C5_StagingRoundTrip ==
    /\ upc # "undefined"
    /\ upc = "read" =>
          /\ readback = data
          /\ \A i \in 1..Len(data) :
                /\ ((i - 1) * elem_size) % AlignOf(usite) = 0
                /\ (i - 1) * elem_size + SizeOf(usite) <= region_size

\* C5 witness: the four vertices were read back from a mapping larger than
\* the array, and they are not all equal.
C5_Witness ==
    /\ upc = "read" /\ usite = 2
    /\ region_size > Len(data) * SizeOf(usite)
    /\ readback[1] # readback[2]

(***************************************************************************)
(* The one-shot command executor, record_submit_commandbuffer, called by   *)
(* main at main.rs 456-525, and the accelerator queue that executes what   *)
(* it submits.                                                             *)
(***************************************************************************)
\* TextureCommands with the copy recorded before the first barrier.
TextureCommands_CopyFirst ==
    <<"copy_buffer_to_image", "barrier_undefined_to_transfer_dst",
      "barrier_transfer_dst_to_shader_read">>

\* The commands the closure of main records (main.rs 464-524).
TextureCommands ==
    <<"barrier_undefined_to_transfer_dst", "copy_buffer_to_image",
      "barrier_transfer_dst_to_shader_read">>

\* What each command of the closure says about the layout of texture_image:
\* the first barrier leaves old_layout at its default and names
\* TRANSFER_DST_OPTIMAL (main.rs 465-476), the copy names the layout it
\* expects (main.rs 498), the second barrier goes from TRANSFER_DST_OPTIMAL
\* to SHADER_READ_ONLY_OPTIMAL (main.rs 501-514).
CommandLayouts(cmd) ==
    CASE cmd = "barrier_undefined_to_transfer_dst" ->
            [kind |-> "barrier", old_layout |-> "UNDEFINED",
             new_layout |-> "TRANSFER_DST_OPTIMAL"]
      [] cmd = "copy_buffer_to_image" ->
            [kind |-> "copy", old_layout |-> "TRANSFER_DST_OPTIMAL",
             new_layout |-> "TRANSFER_DST_OPTIMAL"]
      [] cmd = "barrier_transfer_dst_to_shader_read" ->
            [kind |-> "barrier", old_layout |-> "TRANSFER_DST_OPTIMAL",
             new_layout |-> "SHADER_READ_ONLY_OPTIMAL"]

\* The layout texture_image is created in: initial_layout is left at its
\* default (main.rs 422-434).
InitialLayout == "UNDEFINED"

\* The layout tex_descriptor gives for the image (main.rs 619-623).
DescriptorLayout == "SHADER_READ_ONLY_OPTIMAL"

\* The layout of the image after one command: a barrier whose old_layout is
\* UNDEFINED applies to any layout, any other command applies only to the
\* layout it names; a command that does not apply leaves the image
\* "invalid".
ApplyCommand(layout, cmd) ==
    LET c == CommandLayouts(cmd) IN
    IF layout = "invalid" THEN "invalid"
    ELSE IF c.kind = "barrier" /\ c.old_layout = "UNDEFINED" THEN c.new_layout
    ELSE IF c.old_layout = layout THEN c.new_layout
    ELSE "invalid"

\* The layouts the image goes through under a sequence of commands,
\* starting with the layout it was created in.
RECURSIVE Layouts(_)
Layouts(cmds) ==
    IF cmds = <<>> THEN <<InitialLayout>>
    ELSE LET before == Layouts(SubSeq(cmds, 1, Len(cmds) - 1)) IN
         Append(before, ApplyCommand(before[Len(before)], cmds[Len(cmds)]))

\* The layout after the last of the commands.
LayoutAfter(cmds) == Layouts(cmds)[Len(cmds) + 1]

\* ExecOrder with the wait after the submission left out.
ExecOrder_NoLastWait ==
    <<"wait", "reset_fence", "reset_cb", "begin", "callback", "end",
      "submit">>

\* ExecOrder with the submission made before recording has ended.
ExecOrder_SubmitBeforeEnd ==
    <<"wait", "reset_fence", "reset_cb", "begin", "callback", "submit",
      "end", "wait">>

\* ExecOrder with the first wait on the fence left out.
ExecOrder_NoFirstWait ==
    <<"reset_fence", "reset_cb", "begin", "callback", "end", "submit",
      "wait">>

\* The steps of one call, in order.
ExecOrder ==
    <<"wait", "reset_fence", "reset_cb", "begin", "callback", "end",
      "submit", "wait">>

\* The step the call performs next.
ExecStep == ExecOrder[Len(steps) + 1]

Advance ==
    /\ steps' = Append(steps, ExecStep)
    /\ epc' = IF Len(steps) + 1 = Len(ExecOrder) THEN "returned" ELSE epc

\* main (or a later caller) calls the executor (main.rs 456).
ExecCall ==
    /\ epc \in {"idle", "returned"}
    /\ calls < MaxCalls
    /\ calls' = calls + 1
    /\ epc' = "running"
    /\ steps' = <<>>
    /\ UNCHANGED <<fence, cmdbuf, inflight, recorded, effects>>
    /\ UNCHANGED <<mainVars, memVars, upVars>>

\* wait_for_fences: returns once the fence is signalled, or fails, which is
\* fatal.
ExecWaitFence ==
    /\ epc = "running" /\ ExecStep = "wait"
    /\ \/ fence = "signaled" /\ Advance
       \/ epc' = "panicked" /\ UNCHANGED steps
    /\ UNCHANGED <<fence, cmdbuf, inflight, calls, recorded, effects>>
    /\ UNCHANGED <<mainVars, memVars, upVars>>

\* reset_fences.
ExecResetFence ==
    /\ epc = "running" /\ ExecStep = "reset_fence"
    /\ fence' = "unsignaled"
    /\ Advance
    /\ UNCHANGED <<cmdbuf, inflight, calls, recorded, effects>>
    /\ UNCHANGED <<mainVars, memVars, upVars>>

\* reset_command_buffer.
ExecResetCommandBuffer ==
    /\ epc = "running" /\ ExecStep = "reset_cb"
    /\ cmdbuf' = "initial"
    /\ recorded' = <<>>
    /\ Advance
    /\ UNCHANGED <<fence, inflight, calls, effects>>
    /\ UNCHANGED <<mainVars, memVars, upVars>>

\* begin_command_buffer.
ExecBegin ==
    /\ epc = "running" /\ ExecStep = "begin"
    /\ cmdbuf' = "recording"
    /\ Advance
    /\ UNCHANGED <<fence, inflight, calls, recorded, effects>>
    /\ UNCHANGED <<mainVars, memVars, upVars>>

\* f(device, command_buffer): the caller's closure records its commands,
\* one cmd_* call at a time (main.rs 477, 494, 515), and returns after the
\* last.
ExecCallback ==
    /\ epc = "running" /\ ExecStep = "callback"
    /\ recorded' = Append(recorded, TextureCommands[Len(recorded) + 1])
    /\ IF Len(recorded) + 1 = Len(TextureCommands)
          THEN Advance
          ELSE UNCHANGED <<epc, steps>>
    /\ UNCHANGED <<fence, cmdbuf, inflight, calls, effects>>
    /\ UNCHANGED <<mainVars, memVars, upVars>>

\* end_command_buffer.
ExecEnd ==
    /\ epc = "running" /\ ExecStep = "end"
    /\ cmdbuf' = "executable"
    /\ Advance
    /\ UNCHANGED <<fence, inflight, calls, recorded, effects>>
    /\ UNCHANGED <<mainVars, memVars, upVars>>

\* queue_submit with the fence: the command buffer is pending until the
\* queue has executed it.
ExecSubmit ==
    /\ epc = "running" /\ ExecStep = "submit"
    /\ \/ /\ inflight' = TRUE
          /\ cmdbuf' = "pending"
          /\ effects' = <<>>
          /\ Advance
       \/ /\ epc' = "panicked"
          /\ UNCHANGED <<inflight, cmdbuf, steps, effects>>
    /\ UNCHANGED <<fence, calls, recorded>>
    /\ UNCHANGED <<mainVars, memVars, upVars>>

\* The accelerator executes the next command of the submission and makes
\* its effect visible.
QueueExecute ==
    /\ inflight
    /\ Len(effects) < Len(recorded)
    /\ effects' = Append(effects, recorded[Len(effects) + 1])
    /\ UNCHANGED <<epc, fence, cmdbuf, inflight, steps, calls, recorded>>
    /\ UNCHANGED <<mainVars, memVars, upVars>>

\* The accelerator has executed every command of the submission: the
\* command buffer is no longer pending and the fence is signalled.
QueueComplete ==
    /\ inflight
    /\ Len(effects) >= Len(recorded)
    /\ inflight' = FALSE
    /\ cmdbuf' = IF cmdbuf = "pending" THEN "executable" ELSE cmdbuf
    /\ fence' = "signaled"
    /\ UNCHANGED <<epc, steps, calls, recorded, effects>>
    /\ UNCHANGED <<mainVars, memVars, upVars>>

\* Another user of the same command buffer and fence submits it and does
\* not wait: the prior unfinished submission a call may meet.
PriorSubmit ==
    /\ epc \in {"idle", "returned"}
    /\ calls < MaxCalls
    /\ ~inflight /\ fence = "signaled"
    /\ cmdbuf = "executable"
    /\ fence' = "unsignaled"
    /\ inflight' = TRUE
    /\ cmdbuf' = "pending"
    /\ effects' = <<>>
    /\ epc' = "idle"
    /\ UNCHANGED <<steps, calls, recorded>>
    /\ UNCHANGED <<mainVars, memVars, upVars>>

\* The fence is created signalled with nothing submitted, or an earlier
\* submission of the command buffer is still executing.
InitExec ==
    /\ epc = "idle"
    /\ \/ fence = "signaled" /\ inflight = FALSE /\ cmdbuf = "initial"
       \/ fence = "unsignaled" /\ inflight = TRUE /\ cmdbuf = "pending"
    /\ steps = <<>> /\ calls = 0 /\ effects = <<>>
    /\ recorded = IF inflight THEN TextureCommands ELSE <<>>
    /\ MainIdle /\ MemIdle /\ UpIdle

NextExec ==
    \/ ExecCall \/ ExecWaitFence \/ ExecResetFence
    \/ ExecResetCommandBuffer \/ ExecBegin \/ ExecCallback \/ ExecEnd
    \/ ExecSubmit \/ QueueExecute \/ QueueComplete \/ PriorSubmit

SpecExec == InitExec /\ [][NextExec]_vars

\* C3: when the executor returns, the submission it made has finished: it
\* is not in flight, its fence is signalled and the effects of the
\* recorded commands are visible.
C3_ReturnsAfterFence ==
    epc = "returned" =>
        /\ ~inflight
        /\ fence = "signaled"
        /\ cmdbuf = "executable"
        /\ effects = recorded /\ recorded = TextureCommands

\* C3 witness: the second call has returned.
C3_Witness == epc = "returned" /\ calls = MaxCalls /\ effects = TextureCommands

\* C6: a call performs wait, reset fence, reset command buffer, begin,
\* callback, end, submit, wait, in this order; when it returns it has run
\* the callback once and submitted once.
C6_FixedOrder ==
    /\ Len(steps) <= 8
    /\ steps = SubSeq(<<"wait", "reset_fence", "reset_cb", "begin",
                        "callback", "end", "submit", "wait">>,
                      1, Len(steps))
    /\ epc = "returned" =>
          /\ Len(steps) = 8
          /\ Cardinality({i \in 1..Len(steps) : steps[i] = "callback"}) = 1
          /\ Cardinality({i \in 1..Len(steps) : steps[i] = "submit"}) = 1
          /\ recorded = TextureCommands

\* C6 witness: the first call has gone through all its steps and returned.
C6_Witness == epc = "returned" /\ Len(steps) = 8 /\ calls = 1

\* C7: the executor resets the fence, resets the command buffer, records
\* into it and ends it only while no submission using the buffer is in
\* flight.
C7_NoReuseInFlight ==
    [][(\/ recorded' # recorded
        \/ cmdbuf' # cmdbuf /\ cmdbuf' \in {"initial", "recording"}
        \/ /\ epc = "running" /\ steps' # steps
           /\ ExecStep \in {"reset_fence", "reset_cb", "begin", "callback",
                             "end", "submit"})
          => ~inflight]_vars

\* C7 witness: a call is resetting the command buffer after it found a
\* prior submission unfinished at its first wait.
C7_Witness ==
    /\ epc = "running" /\ Len(steps) = 2
    /\ calls = 1 /\ cmdbuf = "executable" /\ effects = TextureCommands

\* C13: as recorded and as executed, the commands take the texture image
\* from UNDEFINED to TRANSFER_DST_OPTIMAL, copy into it in that layout (the
\* copy is never recorded or executed in another), and then take it to
\* SHADER_READ_ONLY_OPTIMAL; when the executor returns the image is in the
\* layout the descriptor names.
C13_TextureLayoutSequence ==
    /\ \A cmds \in {recorded, effects} :
          /\ Layouts(cmds) = SubSeq(<<"UNDEFINED", "TRANSFER_DST_OPTIMAL",
                                      "TRANSFER_DST_OPTIMAL",
                                      "SHADER_READ_ONLY_OPTIMAL">>,
                                    1, Len(cmds) + 1)
          /\ \A i \in 1..Len(cmds) :
                CommandLayouts(cmds[i]).kind = "copy" =>
                    /\ i = 2
                    /\ LayoutAfter(SubSeq(cmds, 1, i - 1))
                          = "TRANSFER_DST_OPTIMAL"
    /\ epc = "returned" =>
          /\ Len(effects) = 3
          /\ LayoutAfter(effects) = DescriptorLayout

\* C13 witness: the first call has returned with the image in the layout
\* of the descriptor.
C13_Witness ==
    /\ epc = "returned" /\ calls = 1
    /\ LayoutAfter(effects) = "SHADER_READ_ONLY_OPTIMAL"
    /\ Layouts(recorded)[2] = "TRANSFER_DST_OPTIMAL"

(***************************************************************************)
(* Properties of create_device.                                            *)
(***************************************************************************)
\* A family with both capabilities.
Suitable(info) == info.graphics /\ info.present = "yes"

\* The (device, family index) pairs of the devices the scan has read.
VisitedPairs ==
    {<<d, i>> \in (1..Len(pdevices)) \X (0..(MaxFamilies + 1)) :
        i < Len(pdevices[d])}

FamilyAt(pair) == pdevices[pair[1]][pair[2] + 1]

\* Scan order: devices in enumeration order, families by ascending index.
Before(a, b) == a[1] < b[1] \/ (a[1] = b[1] /\ a[2] < b[2])

\* create_device is past its scan and main has not left App::create.
ScanLeft ==
    /\ setupStep = 0
    /\ \/ pc \in {"device_create", "create_return"}
       \/ failedAt \in {"no_suitable_device", "create_device",
                         "get_physical_device_surface_support"}

\* C1: whenever some queue family has the GRAPHICS flag and reports surface
\* support, the pair create_device selects, and creates the logical device
\* for, is a family with both capabilities; a scan that ends without a
\* selection has seen every device and no family with both. (A failing
\* support query aborts the scan before any selection.)
C1_SelectsCapableFamily ==
    /\ selected # <<>> =>
          /\ selected \in VisitedPairs
          /\ FamilyAt(selected).graphics
          /\ FamilyAt(selected).present = "yes"
    /\ (ScanLeft /\ \E p \in VisitedPairs : Suitable(FamilyAt(p))) =>
          \/ selected # <<>>
          \/ failedAt = "get_physical_device_surface_support"
    /\ failedAt = "no_suitable_device" =>
          /\ Len(pdevices) = ndev
          /\ \A p \in VisitedPairs : ~Suitable(FamilyAt(p))

\* C1 witness: a device was created for a selected family although the scan
\* passed a family with presentation only and one with graphics only.
C1_Witness ==
    /\ pc = "create_return"
    /\ selected # <<>>
    /\ \E p, q \in VisitedPairs :
          /\ Before(p, selected) /\ Before(q, selected)
          /\ ~FamilyAt(p).graphics /\ FamilyAt(p).present = "yes"
          /\ FamilyAt(q).graphics /\ FamilyAt(q).present = "no"

\* What the rest of the program rests on: nothing after App::create happens
\* without a logical device.
NeedsDevice ==
    (app \/ pc \in {"setup", "running", "exited"} \/ events > 0
         \/ render_calls > 0 \/ destroy_calls > 0)
        => "device" \in created

\* C8: when no queue family has both capabilities, create_device panics: no
\* logical device is created, App::create returns no App, and neither the
\* event loop nor App::render is reached.
C8_NoSuitableIsFatal ==
    /\ (ScanLeft /\ \A p \in VisitedPairs : ~Suitable(FamilyAt(p))) =>
          /\ pc = "panicked"
          /\ deviceCreate = <<>>
          /\ "device" \notin created
          /\ ~app
          /\ events = 0 /\ render_calls = 0
    /\ NeedsDevice

\* C8 witness: the scan read every device, found families with one
\* capability each, and the expect panicked.
C8_Witness ==
    /\ failedAt = "no_suitable_device"
    /\ ndev = MaxDevices
    /\ \E p, q \in VisitedPairs :
          /\ ~FamilyAt(p).graphics /\ FamilyAt(p).present = "yes"
          /\ FamilyAt(q).graphics /\ FamilyAt(q).present = "no"

\* C9: the selected pair is the first one, in scan order, with both
\* capabilities, and the logical device is created on that physical device
\* with that queue family index.
C9_FirstSuitable ==
    /\ selected # <<>> =>
          /\ selected \in VisitedPairs
          /\ Suitable(FamilyAt(selected))
          /\ \A p \in VisitedPairs :
                Before(p, selected) => ~Suitable(FamilyAt(p))
    /\ deviceCreate # <<>> =>
          /\ selected # <<>>
          /\ deviceCreate.pdevice = selected[1]
          /\ deviceCreate.queue_family_index = selected[2]

\* C9 witness: the device was created for a family that is neither on the
\* first physical device nor the first of its device.
C9_Witness ==
    /\ pc = "create_return"
    /\ deviceCreate # <<>>
    /\ deviceCreate.pdevice > 1
    /\ deviceCreate.queue_family_index > 0

(***************************************************************************)
(* Properties of main.                                                     *)
(***************************************************************************)
\* C4: once the loop is Destroying, App::render is not called again, the
\* loop stays Destroying and App::destroy is not called again; the step
\* into Destroying calls App::destroy once.
C4_CloseExactlyOnce ==
    [][/\ destroying =>
             /\ destroying'
             /\ render_calls' = render_calls
             /\ destroy_calls' = destroy_calls
       /\ (~destroying /\ destroying') =>
             destroy_calls' = destroy_calls + 1]_vars

\* C10: when opening, reading or parsing the container fails, main returns
\* the error with no event loop, no window and no graphics object created.
C10_FileErrorBeforeWindow ==
    failedAt \in {"open", "read", "parse"} =>
        /\ pc = "exit_err"
        /\ ~eventLoop
        /\ ~window
        /\ created = {}
        /\ ~app

\* C10 witness: read_mp4 rejected the container.
C10_Witness == failedAt = "parse" /\ pc = "exit_err"

\* C11: a failed step ends the process at that step: the step that records
\* a failure leaves main returned with the error or panicked, with no event
\* delivered and nothing rendered, and no step is ever taken from a state
\* in which a failure is recorded (no later step, no retry, no frame loop).
C11_EveryErrorTerminal ==
    [][/\ failedAt = ""
       /\ failedAt' # "" =>
             /\ pc' \in {"exit_err", "panicked"}
             /\ setupStep' = setupStep
             /\ events' = 0 /\ render_calls' = 0
             /\ app' = app]_vars

\* C11 witness: the last setup step, pipeline creation, failed after every
\* step before it had succeeded.
C11_Witness ==
    /\ pc = "panicked" /\ failedAt = "pipeline.create"
    /\ "pipeline_layout.create" \in created
    /\ events = 0

\* C12: in a release build a container whose timescale is not 1000, or
\* whose video track is not AVC, is not refused by the assertions on the
\* parsed container: validation fails only on a video track without an
\* stsd or without a video sample entry.
C12_AssertsDebugOnly ==
    (~debug /\ failedAt = "validate") =>
        meta.video \in {"no_stsd", "not_video_entry"}

\* The resources main has bound to memory.
Bound == {r \in {"index_buffer", "vertex_buffer", "uniform_buffer",
                 "image_buffer", "texture_image"} :
            (r \o ".bind") \in created}

\* C14: a step that refers to a buffer or an image (the upload submission,
\* the image view, the descriptor update) runs only after that resource
\* was bound to memory, and a resource is bound only after its memory type
\* was selected and its memory allocated.
C14_BoundBeforeUse ==
    /\ \A i \in 1..Len(SetupSteps) :
          SetupSteps[i] \in created => Uses(SetupSteps[i]) \subseteq Bound
    /\ \A r \in Bound :
          {r \o ".create", r \o ".memorytype", r \o ".allocate"}
              \subseteq created

\* C14 witness: the descriptor set has been updated.
C14_Witness ==
    /\ "descriptors.update" \in created
    /\ "texture_upload" \in created

(***************************************************************************)
(* Properties of the frame loop and of shutdown.                           *)
(***************************************************************************)
\* C15: the loop starts Running; an idle tick taken while Running calls
\* App::render once and touches no application state; App::render is
\* called by nothing else and never while Destroying; Destroying is never
\* left.
C15_RenderOnIdleTick ==
    [][/\ EventLoopRun => ~destroying'
       /\ (OnMainEventsCleared /\ ~destroying) =>
             /\ render_calls' = render_calls + 1
             /\ UNCHANGED <<objVars, destroying, destroy_calls>>
       /\ render_calls' # render_calls =>
             /\ OnMainEventsCleared
             /\ ~destroying
             /\ render_calls' = render_calls + 1
       /\ destroying => destroying']_vars

\* C15 witness: two ticks were rendered, then the window was closed.
C15_Witness == pc = "running" /\ render_calls = 2 /\ destroying

\* C16: the handler of the close request sets control_flow to Exit and
\* releases the instance in one step; while the loop is Destroying the
\* control flow stays Exit whatever the handler writes later; and the loop
\* eventually ends.
C16_CloseTerminates ==
    /\ [][(~destroying /\ destroying') =>
             /\ control_flow' = "Exit"
             /\ destroy_calls' = destroy_calls + 1]_vars
    /\ []((destroying /\ pc = "running") => control_flow = "Exit")
    /\ (destroying ~> pc = "exited")

\* C16 witness: the loop has ended after a close request that was followed
\* by more events.
C16_Witness ==
    /\ pc = "exited" /\ destroying
    /\ destroy_calls = 1 /\ events = MaxEvents

\* C17: once App::create has succeeded, AppData holds the physical device
\* the scan selected and a queue handle that is not null.
C17_ContextRecordsSelection ==
    (app /\ selected # <<>>) =>
        /\ app_data.physical_device = selected[1]
        /\ app_data.graphics_queue # NullHandle

\* C18: App::destroy is called at most once.
C18_DestroyAtMostOnce == destroy_calls <= 1

\* C19: the surface-support query is issued only for families with the
\* GRAPHICS flag, and for every such family the scan has looked at; a
\* failed query ends create_device with a panic and without a selection,
\* whatever families come after it.
C19_QueryShortCircuitAndFatal ==
    /\ queried \subseteq VisitedPairs
    /\ \A p \in queried : FamilyAt(p).graphics
    /\ \A p \in VisitedPairs :
          (FamilyAt(p).graphics
              /\ (p[1] < CurrentDevice \/ p[2] < qi - 1)) => p \in queried
    /\ (\E p \in queried : FamilyAt(p).present = "err") =>
          /\ pc = "panicked"
          /\ failedAt = "get_physical_device_surface_support"
          /\ selected = <<>> /\ deviceCreate = <<>>
          /\ "device" \notin created /\ ~app

\* C19 witness: the query failed on a family that is followed, on the same
\* device, by a family with both capabilities, after a family without the
\* GRAPHICS flag was passed over unqueried.
C19_Witness ==
    /\ failedAt = "get_physical_device_surface_support"
    /\ \E p, q, r \in VisitedPairs :
          /\ p \in queried /\ FamilyAt(p).present = "err"
          /\ q[1] = p[1] /\ Before(p, q) /\ Suitable(FamilyAt(q))
          /\ Before(r, p) /\ ~FamilyAt(r).graphics /\ r \notin queried

\* The objects made from the instance that main holds when it shuts down.
MadeFromInstance ==
    {"surface", "device"}
        \cup (IF debug THEN {"debug_messenger"} ELSE {})
        \cup {SetupSteps[i] : i \in 1..Len(SetupSteps)}

\* C20: nothing but the instance is ever destroyed; when App::destroy has
\* run, the device, the surface, the debug messenger of a debug build and
\* every buffer, image and allocation of the setup still exist.
C20_OnlyInstanceReleased ==
    /\ destroyed \subseteq {"instance"}
    /\ destroy_calls > 0 =>
          /\ destroyed = {"instance"}
          /\ MadeFromInstance \subseteq created \ destroyed

\* C20 witness: a debug build has shut down.
C20_Witness ==
    /\ pc = "exited" /\ debug
    /\ "instance" \in destroyed
    /\ "image_buffer.allocate" \in created

====
